---- MODULE Spec2Model ----
(***************************************************************************)
(* ASABIG Talent Platform (src/main.py): the Benchmarks & Data filter,     *)
(* the gender normalisation of the CSV seeding, the SQLite store and the   *)
(* completion score.                                                       *)
(*                                                                         *)
(* A Python str is a sequence of one-character strings, so that strip(),   *)
(* upper(), lower() and slicing are computed, not assumed.  None (and a    *)
(* pandas NaN cell) is the one-element sequence <<"None">>, which no str   *)
(* equals because every element of a str is a single character.            *)
(***************************************************************************)
EXTENDS Integers, Sequences, FiniteSets, TLC

VARIABLES
    df,          \* Benchmarks & Data: the loaded dataset [columns, rows]
    age_val,     \* Benchmarks & Data: the age group selection
    gender_val,  \* Benchmarks & Data: the gender selection
    view,        \* Benchmarks & Data: the rows shown
    page,        \* the page the sidebar radio selects
    raw,         \* a raw CSV gender cell
    normed,      \* the gender the seeding stores for raw, None before it ran
    csv,         \* athletes.csv as load_csv caches it
    profiles,    \* table athlete_profiles: athlete_id -> row
    metrics,     \* table athlete_metrics: <<athlete_id, metric_name>> -> number of rows
    uploads,     \* table uploads: its rows, oldest first
    files,       \* the files that exist under UPLOADS_DIR
    score,       \* the (total, breakdown) last computed, and for whom
    roster,      \* table academy_roster: its rows, oldest first
    shortlist,   \* table scout_shortlist: its rows, oldest first
    users,       \* table users: its rows, row i has id i
    session_state \* st.session_state.get("user_id"), NoUser when the key is absent

filterVars == <<df, age_val, gender_val, view, page>>
normVars == <<raw, normed>>
deskVars == <<roster, shortlist>>
authVars == <<users, session_state>>
storeVars == <<csv, profiles, metrics, uploads, files, score, roster, shortlist>>
vars == <<df, age_val, gender_val, view, page, raw, normed,
          csv, profiles, metrics, uploads, files, score, roster, shortlist,
          users, session_state>>

----------------------------------------------------------------------------
(* Python str and None *)

None == <<"None">>

Min(a, b) == IF a <= b THEN a ELSE b

Max(a, b) == IF a >= b THEN a ELSE b

\* str.isspace() on one character
IsSpace(c) == c \in {" ", "\t", "\n"}

\* one character of str.upper()
UpperChar(c) ==
    CASE c = "a" -> "A" [] c = "e" -> "E" [] c = "f" -> "F" [] c = "g" -> "G"
      [] c = "l" -> "L" [] c = "m" -> "M" [] c = "n" -> "N" [] c = "o" -> "O"
      [] c = "p" -> "P" [] c = "r" -> "R" [] c = "s" -> "S" [] c = "u" -> "U"
      [] c = "x" -> "X"
      [] OTHER -> c

\* one character of str.lower()
LowerChar(c) ==
    CASE c = "A" -> "a" [] c = "E" -> "e" [] c = "F" -> "f" [] c = "G" -> "g"
      [] c = "L" -> "l" [] c = "M" -> "m" [] c = "N" -> "n" [] c = "O" -> "o"
      [] c = "P" -> "p" [] c = "R" -> "r" [] c = "S" -> "s" [] c = "U" -> "u"
      [] c = "X" -> "x"
      [] OTHER -> c

\* str.upper()
Upper(s) == [i \in 1..Len(s) |-> UpperChar(s[i])]

\* str.lower()
Lower(s) == [i \in 1..Len(s) |-> LowerChar(s[i])]

RECURSIVE LStrip(_)
LStrip(s) == IF s # <<>> /\ IsSpace(Head(s)) THEN LStrip(Tail(s)) ELSE s

RECURSIVE RStrip(_)
RStrip(s) ==
    IF s # <<>> /\ IsSpace(s[Len(s)]) THEN RStrip(SubSeq(s, 1, Len(s) - 1)) ELSE s

\* str.strip()
Strip(s) == RStrip(LStrip(s))

\* s[:n]
Prefix(s, n) == SubSeq(s, 1, Min(n, Len(s)))

\* str(v) for a dataframe cell: a str is itself, NaN prints as "nan"
StrOf(v) == IF v = None THEN <<"n", "a", "n">> ELSE v

\* the elements of a sequence
Range(s) == {s[i] : i \in 1..Len(s)}

\* the rows of s whose index label is in keep, in order: frame[mask]
RECURSIVE SelectRows(_, _)
SelectRows(s, keep) ==
    IF s = <<>> THEN <<>>
    ELSE (IF Head(s).idx \in keep THEN <<Head(s)>> ELSE <<>>) \o SelectRows(Tail(s), keep)

\* all sequences over S of length at most n
SeqsUpTo(S, n) == UNION {[1..k -> S] : k \in 0..n}

----------------------------------------------------------------------------
(* Values, and the parts of the state a specification leaves at rest *)

All == <<"A", "l", "l">>
gM == <<"M">>
gF == <<"F">>
gMF == <<"M", "/", "F">>
gX == <<"X">>
U10 == <<"U", "1", "0">>
U14 == <<"U", "1", "4">>
U17 == <<"U", "1", "7">>
U23 == <<"U", "2", "3">>

\* the athlete ids of the model
A1 == <<"A", "1">>
A2 == <<"A", "2">>
AthleteIds == {A1, A2}

\* the metric names of the model
MetricNames == {"Sprint 30m", "BMI"}

NoCsv == [present |-> FALSE, columns |-> {}, rows |-> <<>>]

NoProfiles == [a \in {} |-> None]

NoMetrics == [k \in AthleteIds \X MetricNames |-> 0]

NormIdle == raw = <<>> /\ normed = None

FilterIdle ==
    /\ df = [columns |-> <<>>, rows |-> <<>>]
    /\ age_val = All
    /\ gender_val = All
    /\ view = <<>>
    /\ page = "Home"

DeskIdle == roster = <<>> /\ shortlist = <<>>

\* the user id that "if not uid" takes for no user: the key is absent
NoUser == 0

\* no script run has created the users table's rows, nobody is logged in
AuthIdle == users = <<>> /\ session_state = NoUser

StoreIdle ==
    /\ csv = NoCsv
    /\ profiles = NoProfiles
    /\ metrics = NoMetrics
    /\ uploads = <<>>
    /\ files = {}
    /\ score = <<>>
    /\ DeskIdle
    /\ AuthIdle

----------------------------------------------------------------------------
(* Page: Benchmarks & Data *)

\* rows a drawn dataset may have
MaxRows == 2

\* the column layouts of the benchmark files drawn, and the cells of each column
ColGender == <<"g", "e", "n", "d", "e", "r">>
ColSex == <<"S", "e", "x">>
ColAgeGroup == <<"a", "g", "e", "_", "g", "r", "o", "u", "p">>
ColTest == <<"t", "e", "s", "t">>

ColumnLayouts == {<<ColGender, ColAgeGroup>>, <<ColSex>>, <<ColTest>>}

CellsOf(c) ==
    IF c \in {ColGender, ColSex} THEN {None, gM, gF, gMF, gX}
    ELSE IF c = ColAgeGroup THEN {U10, U14}
    ELSE {<<"x">>}

\* pd.read_csv: the frames a benchmark file may load as
LoadedFrames ==
    UNION {
        {[columns |-> cols,
          rows |-> [i \in 1..n |-> [idx |-> i, cells |-> cs[i]]]] :
            cs \in [1..n -> {c \in [1..Len(cols) -> UNION {CellsOf(cols[j]) : j \in 1..Len(cols)}] :
                                \A j \in 1..Len(cols) : c[j] \in CellsOf(cols[j])}]}
        : cols \in ColumnLayouts, n \in 0..MaxRows}

\* safe_df: in a column of dtype object (one that holds a str) NaN becomes ""
safe_df(d) ==
    LET isObject(j) == \E i \in 1..Len(d.rows) : d.rows[i].cells[j] # None
        fix(j, v) == IF isObject(j) /\ v = None THEN <<>> ELSE v
    IN  [columns |-> d.columns,
         rows |-> [i \in 1..Len(d.rows) |->
                    [idx |-> d.rows[i].idx,
                     cells |-> [j \in 1..Len(d.columns) |-> fix(j, d.rows[i].cells[j])]]]]

AgeColNames == {ColAgeGroup, <<"a", "g", "e", "g", "r", "o", "u", "p">>,
                <<"a", "g", "e", " ", "g", "r", "o", "u", "p">>}
GenderColNames == {ColGender, <<"s", "e", "x">>}

\* the column probe: the last column whose lower-cased name is listed, 0 if none
FindCol(columns, names) ==
    LET hits == {j \in 1..Len(columns) : Lower(columns[j]) \in names}
    IN  IF hits = {} THEN 0 ELSE CHOOSE j \in hits : \A k \in hits : k <= j

age_col(d) == FindCol(d.columns, AgeColNames)

gender_col(d) == FindCol(d.columns, GenderColNames)

\* ["All"] + sorted(df[col].dropna().astype(str).unique().tolist()), as a set
FilterOptions(d, col) ==
    {All} \union (IF col = 0 THEN {}
                  ELSE {StrOf(d.rows[i].cells[col]) :
                          i \in {k \in 1..Len(d.rows) : d.rows[k].cells[col] # None}})

\* a gender filter that ignores the All selection
GenderKeepsNoAll(col, val, row) == col # 0 /\ StrOf(row.cells[col]) = val

\* a gender filter that treats M/F as matching either way for every selection
GenderKeepsInclusive(col, val, row) ==
    IF col # 0 /\ val # All
    THEN StrOf(row.cells[col]) = val \/ StrOf(row.cells[col]) = gMF \/ val = gMF
    ELSE TRUE

\* the gender mask: view[view[gender_col].astype(str) == str(gender_val)]
GenderKeeps(col, val, row) ==
    IF col # 0 /\ val # All THEN StrOf(row.cells[col]) = val ELSE TRUE

\* the age mask: view[view[age_col].astype(str) == str(age_val)]
AgeKeeps(col, val, row) ==
    IF col # 0 /\ val # All THEN StrOf(row.cells[col]) = val ELSE TRUE

\* view = df.copy() narrowed by the age mask, then by the gender mask
FilteredView(d, age, gender) ==
    LET afterAge == SelectRows(d.rows,
            {d.rows[i].idx : i \in {k \in 1..Len(d.rows) : AgeKeeps(age_col(d), age, d.rows[k])}})
    IN  SelectRows(afterAge,
            {afterAge[i].idx : i \in {k \in 1..Len(afterAge) :
                                        GenderKeeps(gender_col(d), gender, afterAge[k])}})

\* one run of the script on the Benchmarks & Data page with the two selections
BenchmarksAndData ==
    /\ \E age \in FilterOptions(df, age_col(df)), gender \in FilterOptions(df, gender_col(df)) :
          /\ age_val' = age
          /\ gender_val' = gender
          /\ view' = FilteredView(df, age, gender)
    /\ page' = "Benchmarks & Data"
    /\ UNCHANGED <<df, raw, normed, storeVars, authVars>>

\* the sidebar radio back on its first item
Home ==
    /\ page = "Benchmarks & Data"
    /\ page' = "Home"
    /\ age_val' = All
    /\ gender_val' = All
    /\ view' = <<>>
    /\ UNCHANGED <<df, raw, normed, storeVars, authVars>>

InitFilter ==
    /\ df \in {safe_df(d) : d \in LoadedFrames}
    /\ age_val = All
    /\ gender_val = All
    /\ view = <<>>
    /\ page = "Home"
    /\ NormIdle
    /\ StoreIdle

NextFilter == BenchmarksAndData \/ Home

SpecFilter == InitFilter /\ [][NextFilter]_vars

OnBenchmarks == page = "Benchmarks & Data"

InView(row) == \E i \in 1..Len(view) : view[i] = row

DfRows == {df.rows[i] : i \in 1..Len(df.rows)}

GenderOf(row) == row.cells[gender_col(df)]

AgeOf(row) == row.cells[age_col(df)]

\* C1: with the selection M or F (age group All), a row whose gender is M, F
\* or M/F is in the view iff its gender equals the selection or is M/F.
C1_InclusiveGenderFilter ==
    (OnBenchmarks /\ gender_col(df) # 0 /\ age_val = All /\ gender_val \in {gM, gF})
        => \A row \in DfRows :
              GenderOf(row) \in {gM, gF, gMF}
                  => (InView(row) <=> (GenderOf(row) = gender_val \/ GenderOf(row) = gMF))

\* C2: a row whose gender is missing or is none of M, F, M/F is in the view
\* iff the gender selection is All (age group All).
C2_UnrecognizedGenderExcluded ==
    (OnBenchmarks /\ gender_col(df) # 0 /\ age_val = All)
        => \A row \in DfRows :
              GenderOf(row) \notin {gM, gF, gMF}
                  => (InView(row) <=> gender_val = All)

\* C3: with both selections All the view is the loaded frame, row for row;
\* with the gender selection All no row is dropped for its gender, and with
\* the age selection All no row is dropped for its age group.
C3_AllKeepsEveryRow ==
    OnBenchmarks =>
        /\ (gender_val = All /\ age_val = All) => view = df.rows
        /\ gender_val = All =>
              \A row \in DfRows :
                  InView(row) <=> (age_val = All \/ StrOf(AgeOf(row)) = age_val)
        /\ age_val = All =>
              \A row \in DfRows :
                  InView(row) <=> (gender_val = All \/ StrOf(GenderOf(row)) = gender_val)
        /\ \A i \in 1..Len(view) : view[i] \in DfRows

\* C3 witness: All/All shown over a frame of two rows, one with no recognised gender
C3_Witness ==
    /\ OnBenchmarks /\ gender_val = All /\ age_val = All
    /\ gender_col(df) # 0
    /\ Len(df.rows) = 2 /\ Len(view) = 2
    /\ \E row \in DfRows : GenderOf(row) \notin {gM, gF, gMF}

\* C4: with the selection M/F (age group All) a row is in the view iff its
\* gender is exactly M/F; rows tagged M or F are not in it.
C4_StrictMFSelection ==
    (OnBenchmarks /\ gender_col(df) # 0 /\ age_val = All /\ gender_val = gMF)
        => \A row \in DfRows : InView(row) <=> GenderOf(row) = gMF

\* C4 witness: M/F selected over a frame that also holds a row tagged M
C4_Witness ==
    /\ OnBenchmarks /\ gender_col(df) # 0 /\ age_val = All /\ gender_val = gMF
    /\ \E row \in DfRows : GenderOf(row) = gM /\ ~InView(row)
    /\ \E row \in DfRows : GenderOf(row) = gMF /\ InView(row)

----------------------------------------------------------------------------
(* The gender the CSV seeding stores *)

\* length of the raw gender cells drawn character by character
MaxRawLen == 2

RawAlphabet == {"m", "M", "f", "F", "/", " "}

\* the spellings of spec 4.1, lower-cased
RawWords ==
    {<<"m", "a", "l", "e">>, <<"f", "e", "m", "a", "l", "e">>, <<"m">>, <<"f">>,
     <<"m", "/", "f">>, <<"m", "\\", "f">>, <<"m", " ", "/", " ", "f">>, <<"m", "f">>,
     <<"x">>}

\* every way of writing s in upper and lower case
RECURSIVE CaseVariants(_)
CaseVariants(s) ==
    IF s = <<>> THEN {<<>>}
    ELSE {<<c>> \o t : c \in {LowerChar(Head(s)), UpperChar(Head(s))},
                        t \in CaseVariants(Tail(s))}

\* the gender cells a row of athletes.csv may hold after safe_df
RawGenders ==
    SeqsUpTo(RawAlphabet, MaxRawLen)
        \union UNION {{lead \o v \o trail : v \in CaseVariants(w),
                                           lead \in {<<>>, <<" ">>},
                                           trail \in {<<>>, <<" ">>}} : w \in RawWords}

\* the stored gender without the upper-casing
NormalizeGenderNoUpper(cell) == Prefix(Strip(StrOf(cell)), 1)

\* str(r.get(gender, "")).strip()[:1].upper()
NormalizeGender(cell) == Upper(Prefix(Strip(StrOf(cell)), 1))

\* the seeding's gender expression applied to one cell
NormalizeCell ==
    /\ normed = None
    /\ normed' = NormalizeGender(raw)
    /\ UNCHANGED <<raw, filterVars, storeVars, authVars>>

\* the stored value read back and put through the expression again
NormalizeAgain ==
    /\ normed # None
    /\ raw' = normed
    /\ normed' = NormalizeGender(normed)
    /\ UNCHANGED <<filterVars, storeVars, authVars>>

InitNorm ==
    /\ raw \in RawGenders
    /\ normed = None
    /\ FilterIdle
    /\ StoreIdle

NextNorm == NormalizeCell \/ NormalizeAgain

SpecNorm == InitNorm /\ [][NextNorm]_vars

male == <<"m", "a", "l", "e">>

\* C6: the stored gender of an already stored gender is that same value
\* (the step that normalises again changes nothing), every upper/lower-case
\* spelling of the raw cell is stored as the same value, and male, MALE and
\* Male are stored as M.
C6_NormalizeIdempotentCaseInsensitive ==
    normed # None =>
        /\ NormalizeGender(normed) = normed
        /\ \A v \in CaseVariants(raw) : NormalizeGender(v) = normed
        /\ Strip(Lower(raw)) = male => normed = gM

\* C6 witness: the cell "male" was normalised and stored as M
C6_Witness == raw = male /\ normed = gM

----------------------------------------------------------------------------
(* The store and the completion score *)

\* birth_year is an INTEGER column: this number stands for its NULL
NoneYear == -1

\* a.get(k) of the empty dict: get_athlete(athlete_id) or {}
EmptyDict ==
    [full_name |-> None, gender |-> None, birth_year |-> NoneYear, age_group |-> None,
     sport |-> None, dominant_side |-> None, club |-> None, city |-> None,
     photo_path |-> None, preferences_json |-> None]

\* a lookup that falls back on some other row when the id is unknown
get_athlete_any(ps, athlete_id) ==
    IF athlete_id \in DOMAIN ps THEN ps[athlete_id]
    ELSE IF DOMAIN ps = {} THEN EmptyDict
    ELSE ps[CHOOSE a \in DOMAIN ps : TRUE]

\* get_athlete(athlete_id) or {}
get_athlete(ps, athlete_id) ==
    IF athlete_id \in DOMAIN ps THEN ps[athlete_id] ELSE EmptyDict

\* the keys of the fields dict, in its order
ProfileFieldNames ==
    <<"full_name", "gender", "birth_year", "age_group", "sport", "dominant_side",
      "club", "city", "photo_path">>

\* the fields dict
FieldWeight(k) ==
    CASE k = "full_name" -> 10 [] k = "gender" -> 8 [] k = "birth_year" -> 8
      [] k = "age_group" -> 8 [] k = "sport" -> 8 [] k = "dominant_side" -> 6
      [] k = "club" -> 6 [] k = "city" -> 6 [] k = "photo_path" -> 10

\* a photo test that looks at the stored path only
FieldAwardedNullCheck(k, v, fs) ==
    IF k = "photo_path" THEN v # None /\ v # <<>>
    ELSE IF k = "birth_year" THEN v # NoneYear
    ELSE v # None /\ Strip(StrOf(v)) # <<>>

\* the test that awards field k, valued v, its weight; fs are the existing files
FieldAwarded(k, v, fs) ==
    IF k = "photo_path" THEN v # None /\ v # <<>> /\ v \in fs
    ELSE IF k = "birth_year" THEN v # NoneYear
    ELSE v # None /\ Strip(StrOf(v)) # <<>>

\* the loop over fields.items(), from the i-th key on
RECURSIVE ProfileSum(_, _, _)
ProfileSum(a, fs, i) ==
    IF i > Len(ProfileFieldNames) THEN 0
    ELSE LET k == ProfileFieldNames[i]
         IN  (IF FieldAwarded(k, a[k], fs) THEN FieldWeight(k) ELSE 0)
                 + ProfileSum(a, fs, i + 1)

RECURSIVE SumOf(_, _)
SumOf(f, S) ==
    IF S = {} THEN 0
    ELSE LET x == CHOOSE y \in S : TRUE IN f[x] + SumOf(f, S \ {x})

\* a count of the distinct metric names instead of the rows
list_metrics_distinct(ms, athlete_id, limit) ==
    Min(Cardinality({n \in MetricNames : ms[<<athlete_id, n>>] > 0}), limit)

\* len(list_metrics(athlete_id, limit))
list_metrics_len(ms, athlete_id, limit) ==
    Min(SumOf(ms, {athlete_id} \X MetricNames), limit)

\* a metrics part that falls back at twelve rows
MetricsStepsDip(mcount) ==
    IF mcount >= 12 THEN 10
    ELSE IF mcount >= 6 THEN 18
    ELSE IF mcount >= 3 THEN 10
    ELSE IF mcount >= 1 THEN 5
    ELSE 0

\* the metrics step function
MetricsSteps(mcount) ==
    IF mcount >= 12 THEN 25
    ELSE IF mcount >= 6 THEN 18
    ELSE IF mcount >= 3 THEN 10
    ELSE IF mcount >= 1 THEN 5
    ELSE 0

\* list_uploads(athlete_id, limit): the athlete's rows, newest first, at most limit
list_uploads(ups, athlete_id, limit) ==
    LET mine == SelectSeq(ups, LAMBDA r : r.athlete_id = athlete_id)
        n == Min(Len(mine), limit)
    IN  [i \in 1..n |-> mine[Len(mine) + 1 - i]]

\* the uploads part of the score
UploadsPoints(rows) ==
    LET types == {rows[i].upload_type : i \in 1..Len(rows)}
        u == (IF "medical_pdf" \in types THEN 6 ELSE 0)
               + (IF "photo" \in types THEN 5 ELSE 0)
               + (IF "video" \in types THEN 4 ELSE 0)
    IN  IF rows = <<>> THEN 0 ELSE Min(u, 15)

clamp(v, lo, hi) == Max(lo, Min(hi, v))

\* limit=500 of the two list calls of completion_score
ScoreListLimit == 500

\* a score that trusts the one last computed for the athlete
completion_score_cached(ps, ms, ups, fs, athlete_id) ==
    IF score # <<>> /\ score[1].athlete_id = athlete_id THEN score[1]
    ELSE LET a == get_athlete(ps, athlete_id)
             p == ProfileSum(a, fs, 1)
             m == MetricsSteps(list_metrics_len(ms, athlete_id, ScoreListLimit))
             u == UploadsPoints(list_uploads(ups, athlete_id, ScoreListLimit))
         IN  [athlete_id |-> athlete_id, total |-> clamp(p + m + u, 0, 100),
              Profile |-> p, Metrics |-> m, Uploads |-> u]

\* completion_score(athlete_id) on the tables ps, ms, ups and the files fs
completion_score(ps, ms, ups, fs, athlete_id) ==
    LET a == get_athlete(ps, athlete_id)
        p == ProfileSum(a, fs, 1)
        m == MetricsSteps(list_metrics_len(ms, athlete_id, ScoreListLimit))
        u == UploadsPoints(list_uploads(ups, athlete_id, ScoreListLimit))
    IN  [athlete_id |-> athlete_id, total |-> clamp(p + m + u, 0, 100),
         Profile |-> p, Metrics |-> m, Uploads |-> u]

\* a page computes and shows the score of one athlete
ShowScore(athlete_id) ==
    /\ score' = <<completion_score(profiles, metrics, uploads, files, athlete_id)>>
    /\ UNCHANGED <<csv, profiles, metrics, uploads, files>>
    /\ UNCHANGED <<filterVars, normVars, deskVars, authVars>>

\* a text value that survives strip()
Tx == <<"x">>

\* str(UPLOADS_DIR / athlete_id / upload_type / name)
PathOf(athlete_id, upload_type, name) == <<athlete_id, upload_type, name>>

\* the name save_upload gives the stored file: f"{ts}_{safe_name}"
StampedName == "ts_file"

UploadTypes == {"medical_pdf", "photo", "video"}

\* the row save_upload inserts: the stored file's path, or LINK_ONLY in the folder
UploadRow(athlete_id, upload_type, has_file, link_url) ==
    [athlete_id |-> athlete_id, upload_type |-> upload_type,
     file_path |-> PathOf(athlete_id, upload_type,
                          IF has_file THEN StampedName ELSE "LINK_ONLY"),
     link_url |-> link_url]

FileRow(athlete_id, upload_type) == UploadRow(athlete_id, upload_type, TRUE, None)

LinkRow(athlete_id, upload_type) == UploadRow(athlete_id, upload_type, FALSE, Tx)

\* the paths of the files the upload rows were stored as
StoredPaths(rows) ==
    {rows[i].file_path : i \in {k \in 1..Len(rows) : rows[k].file_path[3] # "LINK_ONLY"}}

----------------------------------------------------------------------------
(* completion_score over stores drawn for one athlete *)

\* metric rows and upload rows a drawn store may hold for the athlete
MaxMetricRows == 13
MaxUploadRows == 3

\* the profile rows drawn field by field (photo_path apart)
DrawnRows ==
    {[full_name |-> fn, gender |-> g, birth_year |-> by, age_group |-> ag,
      sport |-> sp, dominant_side |-> ds, club |-> cl, city |-> ci,
      photo_path |-> None, preferences_json |-> None] :
        fn \in {<<>>, Tx}, g \in {None, <<>>, gM}, by \in {NoneYear, 2012},
        ag \in {None, U14}, sp \in {None, <<>>, Tx}, ds \in {None, Tx},
        cl \in {None, Tx}, ci \in {None, Tx}}

FullRow ==
    [full_name |-> Tx, gender |-> gMF, birth_year |-> 2012, age_group |-> U14,
     sport |-> Tx, dominant_side |-> Tx, club |-> Tx, city |-> Tx,
     photo_path |-> None, preferences_json |-> None]

BlankRow ==
    [full_name |-> <<>>, gender |-> None, birth_year |-> NoneYear, age_group |-> None,
     sport |-> None, dominant_side |-> None, club |-> None, city |-> None,
     photo_path |-> None, preferences_json |-> None]

\* the store of one athlete: Save Photo leaves photo_path at the photo's path,
\* and a stored file may since have been removed from the disk
DrawnStore(row, mets, ups) ==
    LET photo == PathOf(A1, "photo", StampedName)
        hasPhoto == photo \in StoredPaths(ups)
    IN  /\ profiles = [a \in {A1} |->
                         [row EXCEPT !.photo_path = IF hasPhoto THEN photo ELSE None]]
        /\ metrics = [k \in AthleteIds \X MetricNames |->
                         IF k[1] = A1 THEN mets[k[2]] ELSE 0]
        /\ uploads = ups
        /\ files \in {{}, StoredPaths(ups)}

DrawnUploads(n) ==
    SeqsUpTo({FileRow(A1, t) : t \in UploadTypes} \union {LinkRow(A1, "video")}, n)

InitScore ==
    /\ \/ \E row \in DrawnRows, ups \in DrawnUploads(1) :
             DrawnStore(row, [n \in MetricNames |-> 0], ups)
       \/ \E row \in {FullRow, BlankRow}, ups \in DrawnUploads(1),
             mets \in [MetricNames -> 0..MaxMetricRows] :
             /\ SumOf(mets, MetricNames) <= MaxMetricRows
             /\ DrawnStore(row, mets, ups)
       \/ \E row \in {FullRow, BlankRow}, ups \in DrawnUploads(MaxUploadRows),
             mets \in [MetricNames -> {0, MaxMetricRows}] :
             /\ SumOf(mets, MetricNames) <= MaxMetricRows
             /\ DrawnStore(row, mets, ups)
       \/ (profiles = NoProfiles /\ metrics = NoMetrics /\ uploads = <<>> /\ files = {})
    /\ csv = NoCsv
    /\ score = <<>>
    /\ FilterIdle
    /\ NormIdle
    /\ DeskIdle
    /\ AuthIdle

NextScore == \E athlete_id \in AthleteIds : ShowScore(athlete_id)

SpecScore == InitScore /\ [][NextScore]_vars

\* the rows of athlete_metrics that belong to the athlete
MetricEntries(athlete_id) ==
    metrics[<<athlete_id, "Sprint 30m">>] + metrics[<<athlete_id, "BMI">>]

\* C7: every computed score has an integer total in 0..100 that equals
\* clamp(Profile + Metrics + Uploads, 0, 100), with Profile in 0..60,
\* Metrics in 0..25 and Uploads in 0..15.
C7_ScoreBounds ==
    \A i \in 1..Len(score) :
        LET s == score[i]
            sum == s.Profile + s.Metrics + s.Uploads
        IN  /\ s.total \in 0..100
            /\ s.total = (IF sum < 0 THEN 0 ELSE IF sum > 100 THEN 100 ELSE sum)
            /\ s.Profile \in 0..60
            /\ s.Metrics \in 0..25
            /\ s.Uploads \in 0..15

\* a non-photo text field is present: not null, not empty once trimmed
TextPresent(v) == v # None /\ Strip(v) # <<>>

\* C8: the Profile part of a computed score is the sum, over the fields that
\* are present, of full_name 10, gender 8, birth_year 8, age_group 8, sport 8,
\* dominant_side 6, club 6, city 6 and photo 10 (60 when all are present); a
\* text field is present iff it is not null and not empty after trimming,
\* birth_year iff it is not null, the photo iff its stored path is a file
\* that exists.
C8_ProfileWeights ==
    \A i \in 1..Len(score) :
        LET a == get_athlete(profiles, score[i].athlete_id)
            w(present, weight) == IF present THEN weight ELSE 0
            photo == a.photo_path # None /\ a.photo_path \in files
        IN  /\ score[i].Profile =
                  w(TextPresent(a.full_name), 10) + w(TextPresent(a.gender), 8)
                    + w(a.birth_year # NoneYear, 8) + w(TextPresent(a.age_group), 8)
                    + w(TextPresent(a.sport), 8) + w(TextPresent(a.dominant_side), 6)
                    + w(TextPresent(a.club), 6) + w(TextPresent(a.city), 6)
                    + w(photo, 10)
            /\ (/\ TextPresent(a.full_name) /\ TextPresent(a.gender)
                /\ a.birth_year # NoneYear /\ TextPresent(a.age_group)
                /\ TextPresent(a.sport) /\ TextPresent(a.dominant_side)
                /\ TextPresent(a.club) /\ TextPresent(a.city) /\ photo)
                   => score[i].Profile = 60

\* C10: the Metrics part of a computed score is 25 for twelve or more
\* metric rows of the athlete, 18 for six to eleven, 10 for three to five,
\* 5 for one or two and 0 for none, whatever the metric names.
C10_MetricsSteps ==
    \A i \in 1..Len(score) :
        LET n == MetricEntries(score[i].athlete_id)
            m == score[i].Metrics
        IN  /\ n >= 12 => m = 25
            /\ (n >= 6 /\ n <= 11) => m = 18
            /\ (n >= 3 /\ n <= 5) => m = 10
            /\ (n >= 1 /\ n <= 2) => m = 5
            /\ n = 0 => m = 0

\* C10 witness: six rows of one metric name score 18
C10_Witness ==
    /\ score # <<>>
    /\ metrics[<<score[1].athlete_id, "BMI">>] = 6
    /\ metrics[<<score[1].athlete_id, "Sprint 30m">>] = 0
    /\ score[1].Metrics = 18

----------------------------------------------------------------------------
(* The script: seeding from athletes.csv, profile form, uploads, scores *)

\* dt.datetime.now().year
YearNow == 2026

DigitValue(c) ==
    CASE c = "0" -> 0 [] c = "1" -> 1 [] c = "2" -> 2 [] c = "3" -> 3 [] c = "4" -> 4
      [] c = "5" -> 5 [] c = "6" -> 6 [] c = "7" -> 7 [] c = "8" -> 8 [] c = "9" -> 9
      [] OTHER -> -1

RECURSIVE DigitsValue(_)
DigitsValue(s) ==
    IF s = <<>> THEN 0 ELSE 10 * DigitsValue(SubSeq(s, 1, Len(s) - 1)) + DigitValue(s[Len(s)])

\* int(str(by).strip()) if str(by).strip() else None, None when int() raises
by_int(cell) ==
    LET t == Strip(StrOf(cell))
    IN  IF t # <<>> /\ \A i \in 1..Len(t) : DigitValue(t[i]) >= 0
        THEN DigitsValue(t) ELSE NoneYear

\* the age group the seeding derives from the birth year
SeedAgeGroup(by) ==
    IF by = NoneYear \/ by = 0 THEN None
    ELSE LET age == YearNow - by
         IN  IF age <= 10 THEN U10 ELSE IF age <= 14 THEN U14
             ELSE IF age <= 17 THEN U17 ELSE U23

\* col(*names): the first of the names that is a column, "" for None
col(columns, names) ==
    LET hits == {i \in 1..Len(names) : names[i] \in columns}
    IN  IF hits = {} THEN "" ELSE names[CHOOSE i \in hits : \A j \in hits : i <= j]

\* r.get(c, ""), with the row's NaN already "" by safe_df
CellOf(r, c) == IF c = "" THEN <<>> ELSE r[c]

\* the gender value of the seeding's INSERT
SeedGender(r, gender) ==
    IF gender # "" THEN NormalizeGender(CellOf(r, gender)) ELSE None

\* the stripped text of a column, None if the file has no such column
SeedText(r, c) == IF c # "" THEN Strip(StrOf(CellOf(r, c))) ELSE None

\* the row the seeding's INSERT OR IGNORE offers for one CSV row
SeedRow(r, columns) ==
    LET a_id == col(columns, <<"athlete_id", "id">>)
        full_name == col(columns, <<"full_name", "name">>)
        by == by_int(CellOf(r, col(columns, <<"birth_year", "yob", "year_of_birth">>)))
        athlete_id == Strip(StrOf(CellOf(r, a_id)))
        name == Strip(StrOf(CellOf(r, full_name)))
    IN  [full_name |-> IF name # <<>> THEN name ELSE athlete_id,
         gender |-> SeedGender(r, col(columns, <<"gender", "sex">>)),
         birth_year |-> by,
         age_group |-> SeedAgeGroup(by),
         sport |-> SeedText(r, col(columns, <<"sport">>)),
         dominant_side |-> SeedText(r, col(columns, <<"dominant_side", "dominant">>)),
         club |-> SeedText(r, col(columns, <<"club">>)),
         city |-> SeedText(r, col(columns, <<"city">>)),
         photo_path |-> None,
         preferences_json |-> None]

\* the loop over demo.iterrows(), from the i-th row on: INSERT OR IGNORE
RECURSIVE SeedLoop(_, _, _)
SeedLoop(ps, demo, i) ==
    IF i > Len(demo.rows) THEN ps
    ELSE LET r == demo.rows[i]
             athlete_id == Strip(StrOf(CellOf(r, col(demo.columns, <<"athlete_id", "id">>))))
         IN  IF athlete_id = <<>> \/ athlete_id \in DOMAIN ps
             THEN SeedLoop(ps, demo, i + 1)
             ELSE SeedLoop([a \in DOMAIN ps \union {athlete_id} |->
                              IF a = athlete_id THEN SeedRow(r, demo.columns) ELSE ps[a]],
                           demo, i + 1)

\* a seeding that writes the CSV rows over the rows of the table (INSERT OR REPLACE)
ensure_demo_profiles_replacing(ps, demo) ==
    IF ~demo.present \/ demo.rows = <<>> THEN ps
    ELSE IF col(demo.columns, <<"athlete_id", "id">>) = ""
            \/ col(demo.columns, <<"full_name", "name">>) = "" THEN ps
    ELSE LET seeded == SeedLoop([a \in {} |-> None], demo, 1)
         IN  [a \in DOMAIN ps \union DOMAIN seeded |->
                IF a \in DOMAIN seeded THEN seeded[a] ELSE ps[a]]

\* ensure_demo_profiles_from_csv on the table ps
ensure_demo_profiles_from_csv(ps, demo) ==
    IF ~demo.present \/ demo.rows = <<>> THEN ps
    ELSE IF col(demo.columns, <<"athlete_id", "id">>) = ""
            \/ col(demo.columns, <<"full_name", "name">>) = "" THEN ps
    ELSE SeedLoop(ps, demo, 1)

\* sha256(s): the digest of s, a value that is no str and that differs for
\* different s
sha256(s) == <<"sha256">> \o s

\* "admin@asabig.local"
AdminEmail ==
    <<"a", "d", "m", "i", "n", "@", "a", "s", "a", "b", "i", "g", ".",
      "l", "o", "c", "a", "l">>

\* "admin123"
AdminPassword == <<"a", "d", "m", "i", "n", "1", "2", "3">>

\* the users row init_db inserts
AdminRow ==
    [full_name |-> <<"A", "d", "m", "i", "n">>, email |-> AdminEmail,
     password_hash |-> sha256(AdminPassword), role |-> "Admin",
     linked_athlete_id |-> None, academy_name |-> None]

\* init_db on the table us: an admin is created if none exists
\* (INSERT OR IGNORE under UNIQUE(email))
init_db(us) ==
    IF \E i \in 1..Len(us) : us[i].role = "Admin" THEN us
    ELSE IF \E i \in 1..Len(us) : us[i].email = AdminEmail THEN us
    ELSE Append(us, AdminRow)

\* the top of a script run has created the admin and seeded the table from
\* the cached file
Seeded ==
    /\ init_db(users) = users
    /\ ensure_demo_profiles_from_csv(profiles, csv) = profiles

\* script runs have taken place, nobody is logged in
AuthStarted == users = init_db(<<>>) /\ session_state = NoUser

\* a script run up to and including the seeding, on a page that writes nothing
ScriptStart ==
    /\ users' = init_db(users)
    /\ profiles' = ensure_demo_profiles_from_csv(profiles, csv)
    /\ score' = <<>>
    /\ UNCHANGED <<csv, metrics, uploads, files, session_state>>
    /\ UNCHANGED <<filterVars, normVars, deskVars>>

\* the athletes.csv files of the model
FullColumns ==
    {"athlete_id", "full_name", "gender", "birth_year", "sport", "dominant_side",
     "club", "city"}

CsvFull(g) ==
    [present |-> TRUE, columns |-> FullColumns,
     rows |-> <<[athlete_id |-> A1, full_name |-> Tx, gender |-> g,
                 birth_year |-> <<"2", "0", "1", "2">>, sport |-> <<" ", "x">>,
                 dominant_side |-> Tx, club |-> <<>>, city |-> Tx],
                [athlete_id |-> A2, full_name |-> Tx, gender |-> <<"F", "e", "m", "a", "l", "e">>,
                 birth_year |-> <<>>, sport |-> Tx,
                 dominant_side |-> <<>>, club |-> Tx, city |-> <<>>]>>]

CsvShort ==
    [present |-> TRUE, columns |-> {"id", "name", "sex", "yob"},
     rows |-> <<[id |-> <<" ", "A", "1">>, name |-> <<>>, sex |-> <<" ", "x">>,
                 yob |-> <<"2", "0", "1", "6", " ">>],
                [id |-> <<" ">>, name |-> Tx, sex |-> gF, yob |-> <<"x">>]>>]

CsvNoId ==
    [present |-> TRUE, columns |-> {"full_name", "gender"},
     rows |-> <<[full_name |-> Tx, gender |-> gM]>>]

\* a file with neither an id column nor a name column
CsvNoKeys ==
    [present |-> TRUE, columns |-> {"gender", "sport"},
     rows |-> <<[gender |-> gF, sport |-> Tx]>>]

\* a file with both key columns whose rows all have a blank id
CsvBlankIds ==
    [present |-> TRUE, columns |-> {"id", "name"},
     rows |-> <<[id |-> <<" ">>, name |-> Tx]>>]

CsvFiles == {NoCsv, CsvFull(gMF), CsvShort, CsvNoId, CsvNoKeys}

\* what a call of ensure_demo_profiles_from_csv leaves its caller with: the
\* value it returns, None on every path, and the table
SeedOutcome(ps, demo) ==
    [returned |-> None, profiles |-> ensure_demo_profiles_from_csv(ps, demo)]

\* users that can exist: init_db's Admin, and registered Players and Parents
\* with the athlete id typed at registration, if any
Actors ==
    {[role |-> "Admin", linked_athlete_id |-> None],
     [role |-> "Player", linked_athlete_id |-> None],
     [role |-> "Parent", linked_athlete_id |-> A2]}

\* x.strip() or None
OrNone(x) == IF Strip(x) = <<>> THEN None ELSE Strip(x)

\* list_athletes_db()["full_name"], the options of "Select athlete:"
AthleteNames == {StrOf(profiles[a].full_name) : a \in DOMAIN profiles}

\* the characters of the model's names, in code point order
CodePoints == <<" ", "/", "0", "1", "2", "A", "F", "M", "X", "a", "n", "x">>

Ord(c) == CHOOSE i \in 1..Len(CodePoints) : CodePoints[i] = c

\* s <= t for two str, as ORDER BY compares TEXT
RECURSIVE StrLeq(_, _)
StrLeq(s, t) ==
    IF s = <<>> THEN TRUE
    ELSE IF t = <<>> THEN FALSE
    ELSE IF Head(s) # Head(t) THEN Ord(Head(s)) < Ord(Head(t))
    ELSE StrLeq(Tail(s), Tail(t))

\* list_athletes_db()["athlete_id"] on the table ps: the ids ORDER BY
\* full_name, rows of one name in any order
list_athletes_db(ps) ==
    {l \in [1..Cardinality(DOMAIN ps) -> DOMAIN ps] :
        /\ \A i, j \in DOMAIN l : i # j => l[i] # l[j]
        /\ \A i, j \in DOMAIN l :
              i < j => StrLeq(StrOf(ps[l[i]].full_name), StrOf(ps[l[j]].full_name))}

\* athletes[athletes["full_name"].astype(str) == pick]["athlete_id"].iloc[0]
iloc0(athletes, ps, pick) ==
    athletes[CHOOSE i \in DOMAIN athletes :
                /\ StrOf(ps[athletes[i]].full_name) = pick
                /\ \A j \in 1..(i - 1) : StrOf(ps[athletes[j]].full_name) # pick]

\* dict(zip(names, ids)).get(pick): a later row of a name replaces an earlier
name_to_id(athletes, ps, pick) ==
    athletes[CHOOSE i \in DOMAIN athletes :
                /\ StrOf(ps[athletes[i]].full_name) = pick
                /\ \A j \in (i + 1)..Len(athletes) :
                      StrOf(ps[athletes[j]].full_name) # pick]

\* the athletes a pick of a full name may resolve to by .iloc[0]
PickByName(pick) == {iloc0(l, profiles, pick) : l \in list_athletes_db(profiles)}

\* what the user may type into "Athlete ID (create new)"
TypedIds == {<<>>, A1, <<"A", "2", " ">>}

\* the submissions of ath_profile_form
FormInputs ==
    {[full_name_f |-> <<"x", " ">>, gender_f |-> gM, birth_year_f |-> 2012,
      age_group_f |-> U14, sport_f |-> <<" ", "x">>, dominant_f |-> Tx, club_f |-> Tx,
      city_f |-> Tx, prefs |-> <<>>],
     [full_name_f |-> <<>>, gender_f |-> <<>>, birth_year_f |-> 2010,
      age_group_f |-> <<>>, sport_f |-> <<" ">>, dominant_f |-> <<>>, club_f |-> <<>>,
      city_f |-> Tx, prefs |-> <<>>]}

\* a data dict of the profile form that carries no photo_path
FormDataNoPhoto(f, current) ==
    [full_name |-> Strip(f.full_name_f),
     gender |-> OrNone(f.gender_f),
     birth_year |-> IF f.birth_year_f # 0 THEN f.birth_year_f ELSE NoneYear,
     age_group |-> OrNone(f.age_group_f),
     sport |-> OrNone(f.sport_f),
     dominant_side |-> OrNone(f.dominant_f),
     club |-> OrNone(f.club_f),
     city |-> OrNone(f.city_f),
     photo_path |-> None,
     preferences_json |-> OrNone(f.prefs)]

\* the data dict of the profile form, photo_path taken from the current row
FormData(f, current) ==
    [full_name |-> Strip(f.full_name_f),
     gender |-> OrNone(f.gender_f),
     birth_year |-> IF f.birth_year_f # 0 THEN f.birth_year_f ELSE NoneYear,
     age_group |-> OrNone(f.age_group_f),
     sport |-> OrNone(f.sport_f),
     dominant_side |-> OrNone(f.dominant_f),
     club |-> OrNone(f.club_f),
     city |-> OrNone(f.city_f),
     photo_path |-> current.photo_path,
     preferences_json |-> OrNone(f.prefs)]

\* a profile save that replaces the table by the written row
upsert_athlete_profile_replace(ps, athlete_id, data) ==
    IF data.full_name = None THEN ps
    ELSE [a \in {athlete_id} |-> data]

\* upsert_athlete_profile on the table ps; a NULL full_name raises and writes nothing
upsert_athlete_profile(ps, athlete_id, data) ==
    IF data.full_name = None THEN ps
    ELSE [a \in DOMAIN ps \union {athlete_id} |-> IF a = athlete_id THEN data ELSE ps[a]]

\* Profile & Data Entry: the athletes the page may work on for user u
SelectedForEntry(u) ==
    IF u.role \in {"Player", "Parent"}
    THEN IF u.linked_athlete_id # None THEN {u.linked_athlete_id}
         ELSE {Strip(typed) : typed \in TypedIds} \ {<<>>}
    ELSE UNION {PickByName(pick) : pick \in AthleteNames}

\* Profile & Data Entry: "Save profile" by user u for the selected athlete
\* with the submission f, and the rerun that shows the score
SaveProfileOf(u, selected, f) ==
    /\ Seeded
    /\ u.role \in {"Player", "Parent", "Admin", "Academy"}
    /\ LET saved == upsert_athlete_profile(profiles, selected,
                       FormData(f, get_athlete(profiles, selected)))
       IN  /\ profiles' = saved
           /\ score' = <<completion_score(saved, metrics, uploads, files, selected)>>
    /\ UNCHANGED <<csv, metrics, uploads, files>>
    /\ UNCHANGED <<filterVars, normVars, deskVars>>

\* Profile & Data Entry: "Save profile" by a user that can exist
SaveProfile ==
    /\ \E u \in Actors, f \in FormInputs :
          \E selected \in SelectedForEntry(u) : SaveProfileOf(u, selected, f)
    /\ UNCHANGED authVars

\* rows the tables that hang on athlete_profiles may hold together when they
\* grow from empty, and stored files
MaxStoreUploads == 1

\* the rows of uploads, athlete_metrics, academy_roster and scout_shortlist
StoreRows ==
    Len(uploads) + SumOf(metrics, DOMAIN metrics) + Len(roster) + Len(shortlist)

\* room for one more row in tables that grew from empty
RoomForRow == StoreRows < MaxStoreUploads

\* Uploads: the athletes the page may work on for user u
SelectedForUpload(u) ==
    IF u.role \in {"Player", "Parent"}
    THEN IF u.linked_athlete_id # None THEN {u.linked_athlete_id} ELSE {}
    ELSE UNION {PickByName(pick) : pick \in AthleteNames}

\* room for one more upload within the model's bound: in a table that grew
\* from empty, or in one that holds about as many rows as the score lists
RoomForUpload ==
    \/ /\ RoomForRow
       /\ Cardinality(files \union StoredPaths(uploads)) < MaxStoreUploads
    \/ /\ Len(uploads) >= ScoreListLimit - 1
       /\ Len(uploads) < ScoreListLimit + MaxStoreUploads

\* save_upload: the file is written first, then the row is inserted; the
\* insert raises when the athlete has no profile row (foreign key)
save_upload(athlete_id, upload_type, has_file, link_url) ==
    /\ files' = IF has_file
                THEN files \union {PathOf(athlete_id, upload_type, StampedName)}
                ELSE files
    /\ uploads' = IF athlete_id \in DOMAIN profiles
                  THEN Append(uploads, UploadRow(athlete_id, upload_type, has_file, link_url))
                  ELSE uploads

\* a "Save PDF" that does not look at the role
SavePdfOfAnyRole(u, selected) ==
    /\ Seeded
    /\ RoomForUpload
    /\ save_upload(selected, "medical_pdf", TRUE, None)
    /\ score' = <<>>
    /\ UNCHANGED <<csv, profiles, metrics>>
    /\ UNCHANGED <<filterVars, normVars, deskVars>>

\* Uploads: "Save PDF" by user u with a file chosen
SavePdfOf(u, selected) ==
    /\ Seeded
    /\ RoomForUpload
    /\ u.role \in {"Player", "Parent", "Academy", "Admin"}
    /\ save_upload(selected, "medical_pdf", TRUE, None)
    /\ score' = <<>>
    /\ UNCHANGED <<csv, profiles, metrics>>
    /\ UNCHANGED <<filterVars, normVars, deskVars>>

\* Uploads: "Save PDF" by a user that can exist
SavePdf ==
    /\ \E u \in Actors : \E selected \in SelectedForUpload(u) : SavePdfOf(u, selected)
    /\ UNCHANGED authVars

\* Uploads: "Save Photo" by user u with an image chosen
SavePhotoOf(u, selected) ==
    /\ Seeded
    /\ RoomForUpload
    /\ u.role \in {"Player", "Parent", "Academy", "Admin"}
    /\ save_upload(selected, "photo", TRUE, None)
    /\ profiles' =
          IF selected \in DOMAIN profiles
          THEN upsert_athlete_profile(profiles, selected,
                  [get_athlete(profiles, selected) EXCEPT
                      !.photo_path = PathOf(selected, "photo", StampedName)])
          ELSE profiles
    /\ score' = <<>>
    /\ UNCHANGED <<csv, metrics>>
    /\ UNCHANGED <<filterVars, normVars, deskVars>>

\* Uploads: "Save Photo" by a user that can exist
SavePhoto ==
    /\ \E u \in Actors : \E selected \in SelectedForUpload(u) : SavePhotoOf(u, selected)
    /\ UNCHANGED authVars

\* Uploads: "Save Video" by user u with a link, a file or both
SaveVideoOf(u, selected, vlink, vfile) ==
    /\ Seeded
    /\ RoomForUpload
    /\ vlink # <<>> \/ vfile
    /\ ~(vfile /\ u.role \notin {"Player", "Parent", "Academy", "Admin"})
    /\ ~(vlink # <<>> /\ u.role \notin {"Player", "Parent", "Scout", "Academy", "Admin"})
    /\ save_upload(selected, "video", vfile, OrNone(vlink))
    /\ score' = <<>>
    /\ UNCHANGED <<csv, profiles, metrics>>
    /\ UNCHANGED <<filterVars, normVars, deskVars>>

\* Uploads: "Save Video" by a user that can exist
SaveVideo ==
    /\ \E u \in Actors, vlink \in {<<>>, Tx}, vfile \in BOOLEAN :
          \E selected \in SelectedForUpload(u) : SaveVideoOf(u, selected, vlink, vfile)
    /\ UNCHANGED authVars

\* what the user may type into "Metric name"
MetricNameInputs == {<<" ">>, <<"B", "M", "I", " ">>}

\* the metric_name column value of a stripped input
MetricKey(name) == IF name = <<"B", "M", "I">> THEN "BMI" ELSE "Sprint 30m"

\* the row counts just below a step of the metrics part, and below the list limit
MetricBases == {2, 5, 11, ScoreListLimit - 1}

\* room for one more metric row of the athlete within the model's bound: in
\* tables that grew from empty, or next to a step of the score
RoomForMetric(athlete_id) ==
    \/ RoomForRow
    \/ \E b \in MetricBases :
          /\ MetricEntries(athlete_id) >= b
          /\ MetricEntries(athlete_id) < b + MaxStoreUploads

\* a metric insert on a connection that does not enforce foreign keys
add_metric_unchecked(ms, ps, athlete_id, metric_name) ==
    [ms EXCEPT ![<<athlete_id, metric_name>>] = @ + 1]

\* add_metric on the table ms: the insert raises when the athlete has no
\* profile row (foreign key)
add_metric(ms, ps, athlete_id, metric_name) ==
    IF athlete_id \in DOMAIN ps
    THEN [ms EXCEPT ![<<athlete_id, metric_name>>] = @ + 1]
    ELSE ms

\* Profile & Data Entry: "Add metric" by user u for the selected athlete,
\* and the rerun that shows the score
AddMetricOf(u, selected, metric_name) ==
    /\ Seeded
    /\ RoomForMetric(selected)
    /\ u.role \in {"Player", "Parent", "Scout", "Academy", "Admin"}
    /\ Strip(metric_name) # <<>>
    /\ LET added == add_metric(metrics, profiles, selected,
                               MetricKey(Strip(metric_name)))
       IN  /\ metrics' = added
           /\ score' = IF selected \in DOMAIN profiles
                       THEN <<completion_score(profiles, added, uploads, files,
                                               selected)>>
                       ELSE <<>>
    /\ UNCHANGED <<csv, profiles, uploads, files>>
    /\ UNCHANGED <<filterVars, normVars, deskVars>>

\* Profile & Data Entry: "Add metric" by a user that can exist
AddMetric ==
    /\ \E u \in Actors, metric_name \in MetricNameInputs :
          \E selected \in SelectedForEntry(u) \cap AthleteIds :
              AddMetricOf(u, selected, metric_name)
    /\ UNCHANGED authVars

\* the ids of user rows: init_db's Admin and one registered user
UserIds == {1, 2}

\* the rows of a table (rs) with the key <<user id, athlete_id>>
KeyRows(rs, user_id, athlete_id) ==
    {i \in 1..Len(rs) : rs[i].user_id = user_id /\ rs[i].athlete_id = athlete_id}

\* academy_add_roster on the table rs: INSERT OR IGNORE under
\* UNIQUE(academy_user_id, athlete_id); the insert raises when the athlete
\* has no profile row (foreign key)
academy_add_roster(rs, ps, academy_user_id, athlete_id) ==
    IF KeyRows(rs, academy_user_id, athlete_id) # {} \/ athlete_id \notin DOMAIN ps
    THEN rs
    ELSE Append(rs, [user_id |-> academy_user_id, athlete_id |-> athlete_id,
                     status |-> "Active"])

\* a shortlist save that inserts a row whatever the table holds
scout_toggle_shortlist_plain(sl, ps, scout_user_id, athlete_id, tag, priority) ==
    IF athlete_id \notin DOMAIN ps THEN sl
    ELSE Append(sl, [user_id |-> scout_user_id, athlete_id |-> athlete_id,
                     tag |-> tag, priority |-> priority])

\* scout_toggle_shortlist on the table sl: INSERT ... ON CONFLICT(scout_user_id,
\* athlete_id) DO UPDATE SET tag, priority; the insert raises when the athlete
\* has no profile row (foreign key)
scout_toggle_shortlist(sl, ps, scout_user_id, athlete_id, tag, priority) ==
    IF KeyRows(sl, scout_user_id, athlete_id) # {}
    THEN [i \in 1..Len(sl) |->
            IF i \in KeyRows(sl, scout_user_id, athlete_id)
            THEN [sl[i] EXCEPT !.tag = tag, !.priority = priority] ELSE sl[i]]
    ELSE IF athlete_id \notin DOMAIN ps THEN sl
    ELSE Append(sl, [user_id |-> scout_user_id, athlete_id |-> athlete_id,
                     tag |-> tag, priority |-> priority])

\* a remove that deletes the athlete's entries of every scout
scout_remove_shortlist_athlete(sl, scout_user_id, athlete_id) ==
    SelectSeq(sl, LAMBDA r : r.athlete_id # athlete_id)

\* scout_remove_shortlist on the table sl: DELETE ... WHERE scout_user_id, athlete_id
scout_remove_shortlist(sl, scout_user_id, athlete_id) ==
    SelectSeq(sl, LAMBDA r : ~(r.user_id = scout_user_id /\ r.athlete_id = athlete_id))

\* academy_add_roster called for the user row academy_user_id and an athlete id
AddToRosterOf(academy_user_id, athlete_id) ==
    /\ Seeded
    /\ RoomForRow \/ KeyRows(roster, academy_user_id, athlete_id) # {}
    /\ roster' = academy_add_roster(roster, profiles, academy_user_id, athlete_id)
    /\ score' = <<>>
    /\ UNCHANGED <<csv, profiles, metrics, uploads, files, shortlist>>
    /\ UNCHANGED <<filterVars, normVars>>

\* academy_add_roster called for a user row and an athlete id
AddToRoster ==
    /\ \E academy_user_id \in UserIds, athlete_id \in AthleteIds :
          AddToRosterOf(academy_user_id, athlete_id)
    /\ UNCHANGED authVars

\* scout_toggle_shortlist called for the user row scout_user_id and an athlete id
SaveToShortlistOf(scout_user_id, athlete_id, tag, priority) ==
    /\ Seeded
    /\ RoomForRow \/ KeyRows(shortlist, scout_user_id, athlete_id) # {}
    /\ shortlist' = scout_toggle_shortlist(shortlist, profiles, scout_user_id,
                                           athlete_id, tag, priority)
    /\ score' = <<>>
    /\ UNCHANGED <<csv, profiles, metrics, uploads, files, roster>>
    /\ UNCHANGED <<filterVars, normVars>>

\* scout_toggle_shortlist called for a user row and an athlete id
SaveToShortlist ==
    /\ \E scout_user_id \in UserIds, athlete_id \in AthleteIds,
          tag \in {Tx}, priority \in {1, 3} :
          SaveToShortlistOf(scout_user_id, athlete_id, tag, priority)
    /\ UNCHANGED authVars

\* scout_remove_shortlist called for the user row scout_user_id and an athlete id
RemoveFromShortlistOf(scout_user_id, athlete_id) ==
    /\ Seeded
    /\ shortlist' = scout_remove_shortlist(shortlist, scout_user_id, athlete_id)
    /\ score' = <<>>
    /\ UNCHANGED <<csv, profiles, metrics, uploads, files, roster>>
    /\ UNCHANGED <<filterVars, normVars>>

\* scout_remove_shortlist called for a user row and an athlete id
RemoveFromShortlist ==
    /\ \E scout_user_id \in UserIds, athlete_id \in AthleteIds :
          RemoveFromShortlistOf(scout_user_id, athlete_id)
    /\ UNCHANGED authVars

\* a stored file disappears from the disk
RemoveFile ==
    /\ \E p \in files : files' = files \ {p}
    /\ UNCHANGED <<csv, profiles, metrics, uploads, score>>
    /\ UNCHANGED <<filterVars, normVars, deskVars, authVars>>

\* Athlete Profile page: the score of the athlete the picked name resolves to
AthleteProfile ==
    /\ Seeded
    /\ \E athletes \in list_athletes_db(profiles), pick_name \in AthleteNames :
          ShowScore(name_to_id(athletes, profiles, pick_name))

Init ==
    /\ csv \in CsvFiles
    /\ profiles = NoProfiles
    /\ metrics = NoMetrics
    /\ uploads = <<>>
    /\ files = {}
    /\ score = <<>>
    /\ FilterIdle
    /\ NormIdle
    /\ DeskIdle
    /\ AuthIdle

Next ==
    \/ ScriptStart
    \/ SaveProfile
    \/ SavePdf
    \/ SavePhoto
    \/ SaveVideo
    \/ RemoveFile
    \/ AthleteProfile

Spec == Init /\ [][Next]_vars

----------------------------------------------------------------------------
(* Claims on the store *)

\* raw gender cells that mean both sexes
BothSexesRaw ==
    {gMF, <<"M", "\\", "F">>, <<"M", " ", "/", " ", "F">>, <<"M", "F">>}

\* profile a is still the row the seeding inserted for the i-th CSV row,
\* whatever gender it was given
SeededFrom(a, i) ==
    /\ csv.present
    /\ col(csv.columns, <<"athlete_id", "id">>) # ""
    /\ col(csv.columns, <<"full_name", "name">>) # ""
    /\ Strip(StrOf(CellOf(csv.rows[i], col(csv.columns, <<"athlete_id", "id">>)))) = a
    /\ [profiles[a] EXCEPT !.gender = None]
           = [SeedRow(csv.rows[i], csv.columns) EXCEPT !.gender = None]

\* C5: in every reachable state of the store the gender of every athlete
\* profile is absent or one of M, F, M/F, and a profile seeded from a raw
\* value meaning both sexes (M/F, M\F, M / F, MF) holds M/F.
C5_GenderClosedSet ==
    /\ \A a \in DOMAIN profiles : profiles[a].gender \in {None, gM, gF, gMF}
    /\ \A a \in DOMAIN profiles : \A i \in 1..Len(csv.rows) :
          (/\ SeededFrom(a, i)
           /\ col(csv.columns, <<"gender", "sex">>) # ""
           /\ CellOf(csv.rows[i], col(csv.columns, <<"gender", "sex">>)) \in BothSexesRaw)
              => profiles[a].gender = gMF

\* the points of the fields of row a other than the photo
OtherFieldPoints(a) ==
    LET w(present, weight) == IF present THEN weight ELSE 0
    IN  w(TextPresent(a.full_name), 10) + w(TextPresent(a.gender), 8)
          + w(a.birth_year # NoneYear, 8) + w(TextPresent(a.age_group), 8)
          + w(TextPresent(a.sport), 8) + w(TextPresent(a.dominant_side), 6)
          + w(TextPresent(a.club), 6) + w(TextPresent(a.city), 6)

\* C9: a step that computes a score (it shows one and leaves the files as
\* they are) awards the photo weight only if the stored photo path is a file
\* that exists at that moment: with the path stored but the file absent or
\* removed, the Profile part is that of the other fields alone.
C9_PhotoCheckedAtComputation ==
    [][(score' # <<>> /\ files' = files) =>
          LET a == get_athlete(profiles', score'[1].athlete_id)
              exists == a.photo_path # None /\ a.photo_path \in files'
          IN  score'[1].Profile = OtherFieldPoints(a) + (IF exists THEN 10 ELSE 0)]_vars

\* C9 witness: a photo path is stored, its file is gone, and the score shown
\* for the athlete has no photo weight
C9_Witness ==
    /\ score # <<>>
    /\ LET a == get_athlete(profiles, score[1].athlete_id)
       IN  /\ a.photo_path # None
           /\ a.photo_path \notin files
           /\ score[1].Profile = OtherFieldPoints(a)

----------------------------------------------------------------------------
(* The Uploads page on a table that holds about ScoreListLimit rows *)

\* n video links of athlete A1, as n clicks of "Save Video" leave them
VideoLinks(n) == [i \in 1..n |-> LinkRow(A1, "video")]

\* upload tables of athlete A1: at most one older row, then the video links
BulkUploads ==
    {older \o VideoLinks(n) :
        older \in DrawnUploads(1), n \in {0, ScoreListLimit - 1, ScoreListLimit}}

InitUploads ==
    /\ csv = NoCsv
    /\ profiles = [a \in {A1} |-> FullRow]
    /\ metrics = NoMetrics
    /\ uploads \in BulkUploads
    /\ files = StoredPaths(uploads)
    /\ score = <<>>
    /\ FilterIdle
    /\ NormIdle
    /\ DeskIdle
    /\ AuthStarted

NextUploads ==
    \/ SavePdf
    \/ SavePhoto
    \/ SaveVideo
    \/ AthleteProfile

SpecUploads == InitUploads /\ [][NextUploads]_vars

\* the upload types among all the rows of the athlete in the table
TypesOf(ups, athlete_id) ==
    {ups[i].upload_type : i \in {k \in 1..Len(ups) : ups[k].athlete_id = athlete_id}}

\* C11: the Uploads part of a computed score is 6 if the athlete has a
\* medical_pdf upload, plus 5 for a photo upload, plus 4 for a video upload,
\* capped at 15, for every collection of upload rows of the athlete,
\* whatever its size and order.
C11_UploadsPoints ==
    \A i \in 1..Len(score) :
        LET types == TypesOf(uploads, score[i].athlete_id)
            sum == (IF "medical_pdf" \in types THEN 6 ELSE 0)
                     + (IF "photo" \in types THEN 5 ELSE 0)
                     + (IF "video" \in types THEN 4 ELSE 0)
        IN  score[i].Uploads = (IF sum > 15 THEN 15 ELSE sum)

\* C12: recording one more upload for an athlete never decreases the
\* Uploads part of that athlete's score.
C12_UploadMonotone ==
    [][\A a \in AthleteIds :
          (/\ Len(uploads') = Len(uploads) + 1
           /\ SubSeq(uploads', 1, Len(uploads)) = uploads
           /\ uploads'[Len(uploads')].athlete_id = a)
             => completion_score(profiles', metrics', uploads', files', a).Uploads
                   >= completion_score(profiles, metrics, uploads, files, a).Uploads]_vars

----------------------------------------------------------------------------
(* The Profile & Data Entry page on a store that holds metric rows *)

InitEntry ==
    /\ csv = NoCsv
    /\ profiles \in {[a \in {A1} |-> FullRow], [a \in {A1} |-> BlankRow]}
    /\ \E mets \in [MetricNames -> MetricBases \union {0}] :
          /\ SumOf(mets, MetricNames) \in MetricBases \union {0}
          /\ metrics = [k \in AthleteIds \X MetricNames |->
                           IF k[1] = A1 THEN mets[k[2]] ELSE 0]
    /\ uploads = <<>>
    /\ files = {}
    /\ score = <<>>
    /\ FilterIdle
    /\ NormIdle
    /\ DeskIdle
    /\ AuthStarted

NextEntry ==
    \/ SaveProfile
    \/ AddMetric
    \/ AthleteProfile

SpecEntry == InitEntry /\ [][NextEntry]_vars

\* C13: adding one more metric row for an athlete via add_metric never
\* decreases the Metrics part of that athlete's score.
C13_MetricMonotone ==
    [][\A a \in AthleteIds :
          (/\ SumOf(metrics', {a} \X MetricNames)
                 = SumOf(metrics, {a} \X MetricNames) + 1
           /\ \A k \in DOMAIN metrics : metrics'[k] >= metrics[k])
             => completion_score(profiles', metrics', uploads', files', a).Metrics
                   >= completion_score(profiles, metrics, uploads, files, a).Metrics]_vars

\* C13 witness: the twelfth metric row was added and the score shows 25
C13_Witness ==
    /\ score # <<>>
    /\ MetricEntries(score[1].athlete_id) = 12
    /\ score[1].Metrics = 25

----------------------------------------------------------------------------
(* Claims on the ends of the score *)

\* C14: an athlete with every profile field present, a photo path that is
\* an existing file, at least 12 metric rows and at least one upload of each
\* of medical_pdf, photo and video scores exactly 100, with the breakdown
\* Profile 60, Metrics 25, Uploads 15.
C14_FullScore ==
    \A i \in 1..Len(score) :
        LET a == get_athlete(profiles, score[i].athlete_id)
        IN  (/\ OtherFieldPoints(a) = 60
             /\ a.photo_path # None /\ a.photo_path \in files
             /\ MetricEntries(score[i].athlete_id) >= 12
             /\ TypesOf(uploads, score[i].athlete_id) = UploadTypes)
               => /\ score[i].total = 100
                  /\ score[i].Profile = 60
                  /\ score[i].Metrics = 25
                  /\ score[i].Uploads = 15

\* C15: for an athlete id with no profile row, no metric rows and no upload
\* rows, an id unknown to the store included, the computed score is total 0
\* with Profile 0, Metrics 0 and Uploads 0.
C15_EmptyScoresZero ==
    \A i \in 1..Len(score) :
        (/\ score[i].athlete_id \notin DOMAIN profiles
         /\ MetricEntries(score[i].athlete_id) = 0
         /\ TypesOf(uploads, score[i].athlete_id) = {})
           => /\ score[i].total = 0
              /\ score[i].Profile = 0
              /\ score[i].Metrics = 0
              /\ score[i].Uploads = 0

\* C15 witness: a score was computed for an id the store does not know while
\* another athlete has a profile row
C15_Witness ==
    /\ score # <<>>
    /\ score[1].athlete_id \notin DOMAIN profiles
    /\ DOMAIN profiles # {}
    /\ score[1].total = 0

----------------------------------------------------------------------------
(* Every operation that writes to the store, from the store init_db leaves *)
(* beside an athletes.csv                                                 *)

InitOps ==
    /\ csv = CsvShort
    /\ profiles = NoProfiles
    /\ metrics = NoMetrics
    /\ uploads = <<>>
    /\ files = {}
    /\ score = <<>>
    /\ FilterIdle
    /\ NormIdle
    /\ DeskIdle
    /\ AuthIdle

NextOps ==
    \/ ScriptStart
    \/ SaveProfile
    \/ AddMetric
    \/ SavePdf
    \/ SavePhoto
    \/ SaveVideo
    \/ AthleteProfile
    \/ AddToRoster
    \/ SaveToShortlist
    \/ RemoveFromShortlist

SpecOps == InitOps /\ [][NextOps]_vars

\* the score of an athlete as the record state in the tables ps, ms, ups
\* and the files fs gives it, for tables shorter than ScoreListLimit
ScoreOfState(ps, ms, ups, fs, athlete_id) ==
    LET a == get_athlete(ps, athlete_id)
        p == OtherFieldPoints(a)
               + (IF a.photo_path # None /\ a.photo_path \in fs THEN 10 ELSE 0)
        n == SumOf(ms, {athlete_id} \X MetricNames)
        m == IF n >= 12 THEN 25 ELSE IF n >= 6 THEN 18 ELSE IF n >= 3 THEN 10
             ELSE IF n >= 1 THEN 5 ELSE 0
        types == TypesOf(ups, athlete_id)
        u == (IF "medical_pdf" \in types THEN 6 ELSE 0)
               + (IF "photo" \in types THEN 5 ELSE 0)
               + (IF "video" \in types THEN 4 ELSE 0)
        sum == p + m + u
    IN  [athlete_id |-> athlete_id, total |-> IF sum > 100 THEN 100 ELSE sum,
         Profile |-> p, Metrics |-> m, Uploads |-> u]

\* C16: the score is a function of the current record state alone: every
\* score a step shows is the one the tables and files give after the step
\* (so two computations with no write between them agree, and a computation
\* after a profile, metric or upload write reflects the write), and the
\* step that only computes a score leaves every table as it was.
C16_ScorePure ==
    [][/\ \A i \in 1..Len(score') :
            score'[i] = ScoreOfState(profiles', metrics', uploads', files',
                                     score'[i].athlete_id)
       /\ AthleteProfile =>
            UNCHANGED <<profiles, metrics, uploads, files, roster, shortlist>>]_vars

\* C16 witness: a score on show for an athlete with a metric row, after a
\* write changed the profile row the seeding inserted
C16_Witness ==
    /\ score # <<>>
    /\ score[1].Metrics = 5
    /\ A1 \in DOMAIN profiles
    /\ profiles[A1] # SeedRow(csv.rows[1], csv.columns)
    /\ score[1].athlete_id = A1

----------------------------------------------------------------------------
(* Claims on linking athletes *)

\* C17: when the loaded athlete table has neither a usable identifier column
\* nor a usable name column, the import hands its caller an outcome that
\* differs from that of a successful link that matched zero rows.
C17_CannotLinkReported ==
    (/\ csv.present
     /\ col(csv.columns, <<"athlete_id", "id">>) = ""
     /\ col(csv.columns, <<"full_name", "name">>) = "")
       => SeedOutcome(profiles, csv) # SeedOutcome(profiles, CsvBlankIds)

\* C18: a name is never taken to match at most one row: whichever entry of
\* an athlete list the user picks, the profile view (dict of names) and the
\* profile edit, upload, roster-add and shortlist operations (.iloc[0] of
\* the rows with the name) land on the athlete of that entry, so each of two
\* athletes that share a full_name can be the target.
C18_PickLandsOnPicked ==
    \A athletes \in list_athletes_db(profiles) : \A i \in DOMAIN athletes :
        LET pick == StrOf(profiles[athletes[i]].full_name)
        IN  /\ name_to_id(athletes, profiles, pick) = athletes[i]
            /\ iloc0(athletes, profiles, pick) = athletes[i]

(***************************************************************************)
(* Claims on the keyed writes                                              *)
(***************************************************************************)

\* the tags and priorities "Save to shortlist" may pass
TagInputs == {<<>>, Tx}

PriorityInputs == {1, 3}

\* C19: the keyed writes are idempotent: from every state of the store,
\* upsert_athlete_profile, academy_add_roster and scout_toggle_shortlist
\* applied twice with the same arguments leave the table they write as one
\* application does, with one row for the key (no row only where the write
\* is refused because the athlete has no profile row).
C19_KeyedWritesIdempotent ==
    /\ \A athlete_id \in AthleteIds, f \in FormInputs :
          LET data == FormData(f, get_athlete(profiles, athlete_id))
              once == upsert_athlete_profile(profiles, athlete_id, data)
          IN  /\ upsert_athlete_profile(once, athlete_id, data) = once
              /\ athlete_id \in DOMAIN once
              /\ once[athlete_id] = data
    /\ \A user_id \in UserIds, athlete_id \in AthleteIds :
          LET once == academy_add_roster(roster, profiles, user_id, athlete_id)
          IN  /\ academy_add_roster(once, profiles, user_id, athlete_id) = once
              /\ Cardinality(KeyRows(once, user_id, athlete_id))
                    = IF athlete_id \in DOMAIN profiles THEN 1 ELSE 0
    /\ \A user_id \in UserIds, athlete_id \in AthleteIds,
          tag \in TagInputs, priority \in PriorityInputs :
          LET once == scout_toggle_shortlist(shortlist, profiles, user_id,
                                             athlete_id, tag, priority)
          IN  /\ scout_toggle_shortlist(once, profiles, user_id, athlete_id,
                                        tag, priority) = once
              /\ Cardinality(KeyRows(once, user_id, athlete_id))
                    = IF athlete_id \in DOMAIN profiles THEN 1 ELSE 0

\* a shortlist row is stored, and the save that wrote it, applied again,
\* leaves the table as it is
C19_Witness ==
    /\ Len(shortlist) = 1
    /\ shortlist[1].priority = 1
    /\ scout_toggle_shortlist(shortlist, profiles, shortlist[1].user_id,
                              shortlist[1].athlete_id, shortlist[1].tag,
                              shortlist[1].priority) = shortlist
    /\ Cardinality(KeyRows(shortlist, shortlist[1].user_id,
                           shortlist[1].athlete_id)) = 1

\* C20: athlete records are never hard-deleted: no step of seeding, profile
\* save, metric add, upload, roster add, shortlist save or shortlist remove
\* takes an athlete id out of athlete_profiles.
C20_NoHardDelete == [][DOMAIN profiles \subseteq DOMAIN profiles']_vars

\* both athletes have a profile row after profile saves, and a write to a
\* table that hangs on athlete_profiles has followed
C20_Witness ==
    /\ Seeded
    /\ DOMAIN profiles = AthleteIds
    /\ StoreRows = 1

(***************************************************************************)
(* Claims on the rows that hang on athlete_profiles                        *)
(***************************************************************************)

\* C21: in every reachable state each metric row and each upload row carries
\* the id of one athlete that has a row in athlete_profiles, and adding a
\* metric for an id without a profile row changes nothing.
C21_RowsBelongToAthlete ==
    /\ \A i \in 1..Len(uploads) : uploads[i].athlete_id \in DOMAIN profiles
    /\ \A k \in DOMAIN metrics : metrics[k] > 0 => k[1] \in DOMAIN profiles
    /\ \A athlete_id \in AthleteIds \ DOMAIN profiles, n \in MetricNames :
          add_metric(metrics, profiles, athlete_id, n) = metrics

\* an upload was tried for an athlete without a profile row: its file is on
\* the disk and no row was inserted
C21_Witness ==
    /\ Seeded
    /\ \E p \in files : p[1] \notin DOMAIN profiles
    /\ uploads = <<>>

(***************************************************************************)
(* Login, registration and the pages behind the login                      *)
(***************************************************************************)

ROLES == {"Player", "Parent", "Scout", "Academy", "Admin"}

\* valid_email: ^[^\s@]+@[^\s@]+\.[^\s@]+$ on email.strip()
valid_email(email) ==
    LET e == Strip(email)
    IN  \E i \in 2..Len(e) :
            /\ e[i] = "@"
            /\ \A k \in 1..Len(e) : ~IsSpace(e[k]) /\ (e[k] = "@" => k = i)
            /\ \E j \in (i + 2)..(Len(e) - 1) : e[j] = "."

\* get_user_by_email on the table us: the id of the row whose email is
\* email.strip().lower(), NoUser for no row
get_user_by_email(us, email) ==
    LET key == Lower(Strip(email))
        found == {i \in 1..Len(us) : us[i].email = key}
    IN  IF found # {} THEN CHOOSE i \in found : TRUE ELSE NoUser

\* the value of u when nobody is logged in (None), as a row without a role
Nobody ==
    [id |-> NoUser, full_name |-> None, email |-> None, password_hash |-> None,
     role |-> "None", linked_athlete_id |-> None, academy_name |-> None]

\* get_user_by_id on the table us, with the id as a field of the row
get_user_by_id(us, id) ==
    IF id \in 1..Len(us)
    THEN [id |-> id, full_name |-> us[id].full_name, email |-> us[id].email,
          password_hash |-> us[id].password_hash, role |-> us[id].role,
          linked_athlete_id |-> us[id].linked_athlete_id,
          academy_name |-> us[id].academy_name]
    ELSE Nobody

\* current_user for the session ss
current_user(us, ss) == IF ss = NoUser THEN Nobody ELSE get_user_by_id(us, ss)

\* create_user on the table us; the INSERT raises under UNIQUE(email) and
\* writes nothing when the email is taken
create_user(us, full_name, email, password, role, linked_athlete_id, academy_name) ==
    IF get_user_by_email(us, email) # NoUser THEN us
    ELSE Append(us, [full_name |-> Strip(full_name), email |-> Lower(Strip(email)),
                     password_hash |-> sha256(password), role |-> role,
                     linked_athlete_id |-> linked_athlete_id,
                     academy_name |-> academy_name])

\* a login that takes the email for the account
login_any_password(us, ss, email, password) ==
    LET u == get_user_by_email(us, email)
    IN  IF u = NoUser THEN [ok |-> FALSE, user_id |-> ss]
        ELSE [ok |-> TRUE, user_id |-> u]

\* login on the table us and the session ss: the value returned and
\* session_state["user_id"] after it
login(us, ss, email, password) ==
    LET u == get_user_by_email(us, email)
    IN  IF u = NoUser THEN [ok |-> FALSE, user_id |-> ss]
        ELSE IF sha256(password) # us[u].password_hash THEN [ok |-> FALSE, user_id |-> ss]
        ELSE [ok |-> TRUE, user_id |-> u]

\* the emails and passwords of the model
E1 == <<"a", "@", "b", ".", "c">>
E1Typed == <<" ", "A", "@", "b", ".", "c">>
E2 == <<"x", "@", "b", ".", "c">>
BadEmail == <<"a", "@", "b">>
P1 == <<"s", "e", "c", "r", "e", "t">>
P2 == <<"S", "e", "c", "r", "e", "t">>
ShortPassword == <<"a", "b", "c">>

\* a submission of register_form; linked is what "Athlete ID (if known ...)" holds
RegisterForm(full_name, email2, role, pwd1, pwd2, linked) ==
    [full_name |-> full_name, email2 |-> email2, role |-> role, pwd1 |-> pwd1,
     pwd2 |-> pwd2, linked |-> linked]

\* the submissions of register_form
RegisterInputs ==
    {RegisterForm(Tx, E1, "Player", P1, P1, <<>>),
     RegisterForm(Tx, E1Typed, "Parent", P1, P1, <<"A", "2", " ">>),
     RegisterForm(Tx, E2, "Scout", P1, P1, <<>>),
     RegisterForm(Tx, E2, "Academy", P1, P1, <<>>),
     RegisterForm(Tx, E2, "Admin", P1, P1, <<>>),
     RegisterForm(<<" ">>, E2, "Player", P1, P1, <<>>),
     RegisterForm(Tx, BadEmail, "Player", P1, P1, <<>>),
     RegisterForm(Tx, E2, "Player", ShortPassword, ShortPassword, <<>>),
     RegisterForm(Tx, E2, "Player", P1, P2, <<>>)}

\* the "Create account" branch on the table us: the table after it.  The
\* athlete id input exists for Player and Parent only; for the other roles
\* linked_athlete_id is None, linked_athlete_id.strip() raises inside the
\* try and create_user is not called
register_form(us, f) ==
    IF Strip(f.full_name) = <<>> THEN us
    ELSE IF ~valid_email(f.email2) THEN us
    ELSE IF Len(f.pwd1) < 6 THEN us
    ELSE IF f.pwd1 # f.pwd2 THEN us
    ELSE IF f.role \notin {"Player", "Parent"} THEN us
    ELSE create_user(us, f.full_name, f.email2, f.pwd1, f.role, OrNone(f.linked), None)

\* the radio of the sidebar
nav_items_public ==
    {"Home", "Benchmarks & Data", "Athletes (Demo List)", "Athlete Profile",
     "Athlete Comparison", "About / Governance"}

nav_items_auth == {"Dashboard", "Profile & Data Entry", "Uploads (PDF/Photo/Video)"}

nav_items_admin == {"Admin Panel"}

\* the options of "Choose page:" for the current user u
NavItems(u) ==
    IF u = Nobody THEN nav_items_public \union {"Login / Register"}
    ELSE nav_items_public \union nav_items_auth
            \union (IF u.role = "Admin" THEN nav_items_admin ELSE {})

\* a page that renders whoever asks
RenderOpen(p, u) == "content"

\* what page p renders for the current user u: its content, or the warning
\* before st.stop()
Render(p, u) ==
    IF p \in nav_items_auth
    THEN IF u = Nobody THEN "Please login first." ELSE "content"
    ELSE IF p \in nav_items_admin
    THEN IF u = Nobody \/ u.role # "Admin" THEN "Admin only." ELSE "content"
    ELSE "content"

\* the pages the model's user turns to
VisitedPages ==
    {"Home", "Login / Register", "Dashboard", "Profile & Data Entry",
     "Uploads (PDF/Photo/Video)", "Admin Panel"}

\* the user chooses a page in the sidebar: a script run that writes nothing
Visit ==
    /\ Seeded
    /\ \E p \in NavItems(current_user(users, session_state)) \cap VisitedPages :
          /\ p # page
          /\ page' = p
    /\ score' = <<>>
    /\ UNCHANGED <<csv, profiles, metrics, uploads, files>>
    /\ UNCHANGED <<df, age_val, gender_val, view, normVars, deskVars, authVars>>

\* what the user may type into login_form
LoginEmails == {E1, E1Typed, E2, AdminEmail}

LoginPasswords == {P1, P2, AdminPassword}

\* login_form: "Login"; a successful login reruns the script with the
\* sidebar of the user, whose radio starts at its first option
LoginForm ==
    /\ Seeded
    /\ page = "Login / Register"
    /\ \E email \in LoginEmails, password \in LoginPasswords :
          LET r == login(users, session_state, email, password)
          IN  /\ session_state' = r.user_id
              /\ page' = IF r.ok THEN "Home" ELSE page
    /\ UNCHANGED <<df, age_val, gender_val, view, normVars, storeVars, users>>

\* register_form: "Create account"
Register ==
    /\ Seeded
    /\ page = "Login / Register"
    /\ \E f \in RegisterInputs : users' = register_form(users, f)
    /\ UNCHANGED <<filterVars, normVars, storeVars, session_state>>

\* the "Logout" button of the header, and the rerun without a user
Logout ==
    /\ Seeded
    /\ current_user(users, session_state) # Nobody
    /\ session_state' = NoUser
    /\ page' = "Home"
    /\ UNCHANGED <<df, age_val, gender_val, view, normVars, storeVars, users>>

\* the link "Save profile" writes for a Player or Parent without one
AutoLink(us, u, selected) ==
    IF u.role \in {"Player", "Parent"} /\ u.linked_athlete_id = None
    THEN [us EXCEPT ![u.id].linked_athlete_id = selected]
    ELSE us

\* Profile & Data Entry: "Save profile" by the logged-in user
EntrySaveProfile ==
    /\ page = "Profile & Data Entry"
    /\ Render(page, current_user(users, session_state)) = "content"
    /\ LET u == current_user(users, session_state)
       IN  \E f \in FormInputs : \E selected \in SelectedForEntry(u) :
              /\ SaveProfileOf(u, selected, f)
              /\ users' = AutoLink(users, u, selected)
    /\ UNCHANGED session_state

\* Profile & Data Entry: "Add metric" by the logged-in user
EntryAddMetric ==
    /\ page = "Profile & Data Entry"
    /\ Render(page, current_user(users, session_state)) = "content"
    /\ LET u == current_user(users, session_state)
       IN  \E metric_name \in MetricNameInputs :
              \E selected \in SelectedForEntry(u) \cap AthleteIds :
                  AddMetricOf(u, selected, metric_name)
    /\ UNCHANGED authVars

\* Uploads: "Save PDF" by the logged-in user
UploadsSavePdf ==
    /\ page = "Uploads (PDF/Photo/Video)"
    /\ Render(page, current_user(users, session_state)) = "content"
    /\ LET u == current_user(users, session_state)
       IN  \E selected \in SelectedForUpload(u) : SavePdfOf(u, selected)
    /\ UNCHANGED authVars

\* Uploads: "Save Photo" by the logged-in user
UploadsSavePhoto ==
    /\ page = "Uploads (PDF/Photo/Video)"
    /\ Render(page, current_user(users, session_state)) = "content"
    /\ LET u == current_user(users, session_state)
       IN  \E selected \in SelectedForUpload(u) : SavePhotoOf(u, selected)
    /\ UNCHANGED authVars

\* Uploads: "Save Video" by the logged-in user
UploadsSaveVideo ==
    /\ page = "Uploads (PDF/Photo/Video)"
    /\ Render(page, current_user(users, session_state)) = "content"
    /\ LET u == current_user(users, session_state)
       IN  \E vlink \in {<<>>, Tx}, vfile \in BOOLEAN :
              \E selected \in SelectedForUpload(u) :
                  SaveVideoOf(u, selected, vlink, vfile)
    /\ UNCHANGED authVars

\* a new database and an athletes.csv, before the first script run
InitAuth ==
    /\ csv = CsvShort
    /\ profiles = NoProfiles
    /\ metrics = NoMetrics
    /\ uploads = <<>>
    /\ files = {}
    /\ score = <<>>
    /\ FilterIdle
    /\ NormIdle
    /\ DeskIdle
    /\ AuthIdle

NextAuth ==
    \/ ScriptStart
    \/ Visit
    \/ LoginForm
    \/ Register
    \/ Logout
    \/ EntrySaveProfile
    \/ EntryAddMetric
    \/ UploadsSavePdf
    \/ UploadsSavePhoto
    \/ UploadsSaveVideo

SpecAuth == InitAuth /\ [][NextAuth]_vars

----------------------------------------------------------------------------
(* The pages behind the login for a users table that holds a Scout *)

\* a users row of role Scout, as create_user writes it
ScoutRow ==
    [full_name |-> Tx, email |-> E2, password_hash |-> sha256(P1), role |-> "Scout",
     linked_athlete_id |-> None, academy_name |-> None]

\* the tags and priorities of "Add/Update shortlist entry"
DashboardTags == {<<>>, <<"x", " ">>}

DashboardPriorities == {1, 3}

\* Dashboard of a Scout: "Save to shortlist" for an athlete of the candidate list
DashboardSaveToShortlist ==
    /\ page = "Dashboard"
    /\ Render(page, current_user(users, session_state)) = "content"
    /\ LET u == current_user(users, session_state)
       IN  /\ u.role = "Scout"
           /\ \E athlete_id \in DOMAIN profiles, tag \in DashboardTags,
                 priority \in DashboardPriorities :
                 SaveToShortlistOf(u.id, athlete_id, Strip(tag), priority)
    /\ UNCHANGED authVars

\* Dashboard of a Scout: "Remove from shortlist" for an athlete of the candidate list
DashboardRemoveFromShortlist ==
    /\ page = "Dashboard"
    /\ Render(page, current_user(users, session_state)) = "content"
    /\ LET u == current_user(users, session_state)
       IN  /\ u.role = "Scout"
           /\ \E athlete_id \in DOMAIN profiles : RemoveFromShortlistOf(u.id, athlete_id)
    /\ UNCHANGED authVars

\* a seeded store whose users table holds the admin and a Scout
InitRoles ==
    /\ csv = CsvShort
    /\ profiles = ensure_demo_profiles_from_csv(NoProfiles, CsvShort)
    /\ metrics = NoMetrics
    /\ uploads = <<>>
    /\ files = {}
    /\ score = <<>>
    /\ FilterIdle
    /\ NormIdle
    /\ DeskIdle
    /\ users = <<AdminRow, ScoutRow>>
    /\ session_state = NoUser

NextRoles ==
    \/ Visit
    \/ LoginForm
    \/ Logout
    \/ EntrySaveProfile
    \/ EntryAddMetric
    \/ UploadsSavePdf
    \/ UploadsSavePhoto
    \/ UploadsSaveVideo
    \/ DashboardSaveToShortlist
    \/ DashboardRemoveFromShortlist

SpecRoles == InitRoles /\ [][NextRoles]_vars

(***************************************************************************)
(* Claims on registration, login and the pages behind the login            *)
(***************************************************************************)

\* C22: registration works for every role: a submission with a non-empty
\* full name, a valid email that is not registered and two equal passwords
\* of at least 6 characters creates a users row with the selected role, and
\* a login with that email and password then sets the session to that row.
C22_RegistrationWorks ==
    Seeded =>
        \A f \in RegisterInputs :
            ( /\ Strip(f.full_name) # <<>>
              /\ valid_email(f.email2)
              /\ get_user_by_email(users, f.email2) = NoUser
              /\ Len(f.pwd1) >= 6
              /\ f.pwd1 = f.pwd2 )
            => LET after == register_form(users, f)
                   id == get_user_by_email(after, f.email2)
               IN  /\ id # NoUser
                   /\ after[id].role = f.role
                   /\ login(after, NoUser, f.email2, f.pwd1)
                        = [ok |-> TRUE, user_id |-> id]

\* C23: no step taken while the logged-in user is a Player or a Parent
\* changes the row of an existing athlete profile other than the one linked
\* to that user.
C23_PlayerEditsOwnOnly ==
    [][LET u == current_user(users, session_state)
       IN  u.role \in {"Player", "Parent"}
           => \A a \in DOMAIN profiles :
                 a # u.linked_athlete_id => profiles'[a] = profiles[a]]_vars

\* C24: while the logged-in user is a Scout, a step adds no upload row of
\* type medical_pdf or photo and no row that carries a file, stores no file
\* under the uploads directory and changes no athlete profile row.
C24_ScoutLinkOnly ==
    [][current_user(users, session_state).role = "Scout"
       => /\ \A i \in (Len(uploads) + 1)..Len(uploads') :
                /\ uploads'[i].upload_type = "video"
                /\ uploads'[i].file_path[3] = "LINK_ONLY"
          /\ files' = files
          /\ profiles' = profiles]_vars

\* a Scout is on the Uploads page, a video link is recorded, and no file
\* is stored
C24_Witness ==
    /\ current_user(users, session_state).role = "Scout"
    /\ page = "Uploads (PDF/Photo/Video)"
    /\ Len(uploads) = 1
    /\ uploads[1].upload_type = "video"
    /\ uploads[1].link_url = Tx
    /\ files = {}

\* C25: page gating.  In every state Dashboard, Profile & Data Entry and
\* Uploads render no content without a logged-in user, Admin Panel renders
\* its content for an Admin only, and the page shown is one the sidebar
\* offers to the current user; a step taken without a logged-in user writes
\* to no table but users (registration) and athlete_profiles (seeding), and
\* to no file.
C25_PageGating ==
    /\ [](LET u == current_user(users, session_state)
          IN  /\ \A p \in nav_items_auth : u = Nobody => Render(p, u) # "content"
              /\ \A p \in nav_items_admin :
                    Render(p, u) = "content" => u.role = "Admin"
              /\ page \in NavItems(u)
              /\ Render(page, u) = "content")
    /\ [][session_state = NoUser
          => /\ UNCHANGED <<metrics, uploads, files, roster, shortlist>>
             /\ profiles' \in {profiles, ensure_demo_profiles_from_csv(profiles, csv)}]_vars

\* a user has logged in, created the profile of A2 and logged out
C25_Witness ==
    /\ session_state = NoUser
    /\ A2 \in DOMAIN profiles
    /\ page = "Home"
    /\ Len(users) = 2

(***************************************************************************)
(* Claims on what a write leaves alone                                     *)
(***************************************************************************)

\* C26: save_upload is all-or-nothing: after any sequence of saves, every
\* file under the uploads directory is the file_path of an uploads row (a
\* save whose INSERT fails leaves no file).
C26_UploadAllOrNothing == files \subseteq StoredPaths(uploads)

\* C27: seeding leaves every existing profile row as it is, removes none,
\* and seeding twice gives the table that seeding once gives, whatever
\* athletes.csv holds and whatever the app has written to the table.
C27_SeedingKeepsProfiles ==
    \A demo \in CsvFiles :
        LET once == ensure_demo_profiles_from_csv(profiles, demo)
        IN  /\ DOMAIN profiles \subseteq DOMAIN once
            /\ \A a \in DOMAIN profiles : once[a] = profiles[a]
            /\ ensure_demo_profiles_from_csv(once, demo) = once

\* the seeded profile of A1 has been edited in the app, and athletes.csv
\* still has the row it was seeded from
C27_Witness ==
    /\ csv = CsvShort
    /\ Seeded
    /\ A1 \in DOMAIN profiles
    /\ A1 \in DOMAIN ensure_demo_profiles_from_csv(NoProfiles, csv)
    /\ profiles[A1] # ensure_demo_profiles_from_csv(NoProfiles, csv)[A1]

C29_LoginIff ==
    page = "Login / Register" =>
    \A email \in LoginEmails \union {BadEmail}, password \in LoginPasswords,
       ss \in {NoUser} \union (1..Len(users)) :
        LET r == login(users, ss, email, password)
            trimmed == Lower(Strip(email))
            digest == sha256(password)
            match == {i \in 1..Len(users) :
                        users[i].email = trimmed /\ users[i].password_hash = digest}
        IN  /\ r.ok <=> match # {}
            /\ r.ok => r.user_id \in match
            /\ ~r.ok => r.user_id = ss

\* a registered user is logged in, and a login with a wrong password for
\* the same account fails and leaves the session
C29_Witness ==
    /\ Len(users) = 2
    /\ session_state = 2
    /\ users[2].linked_athlete_id # None
    /\ login(users, session_state, E1Typed, P2) = [ok |-> FALSE, user_id |-> 2]
    /\ login(users, NoUser, E1Typed, P1) = [ok |-> TRUE, user_id |-> 2]

----------------------------------------------------------------------------
(* The shortlist of two scouts *)

\* shortlist tables of at most two entries, as saves with the default
\* priority leave them
ShortlistTables ==
    LET Rows == {[user_id |-> s, athlete_id |-> a, tag |-> t, priority |-> 3] :
                    s \in UserIds, a \in AthleteIds, t \in {<<>>, Tx}}
    IN  {sl \in SeqsUpTo(Rows, 2) :
            \A i, j \in 1..Len(sl) :
                (sl[i].user_id = sl[j].user_id /\ sl[i].athlete_id = sl[j].athlete_id)
                => i = j}

\* a seeded store with two athletes and a shortlist
InitDesk ==
    /\ csv = CsvFull(gMF)
    /\ profiles = ensure_demo_profiles_from_csv(NoProfiles, CsvFull(gMF))
    /\ metrics = NoMetrics
    /\ uploads = <<>>
    /\ files = {}
    /\ score = <<>>
    /\ roster = <<>>
    /\ shortlist \in ShortlistTables
    /\ FilterIdle
    /\ NormIdle
    /\ AuthStarted

NextDesk == SaveToShortlist \/ RemoveFromShortlist

SpecDesk == InitDesk /\ [][NextDesk]_vars

\* C30: scout_shortlist holds at most one entry per (scout, athlete); a
\* save for a pair that has an entry replaces the tag and priority of that
\* entry and leaves every other entry; a remove leaves no entry of the pair
\* and leaves the entries of every other pair, other scouts' entries for the
\* same athlete among them.
C30_ShortlistKeyed ==
    /\ \A s \in UserIds, a \in AthleteIds : Cardinality(KeyRows(shortlist, s, a)) <= 1
    /\ \A s \in UserIds, a \in AthleteIds, tag \in TagInputs, priority \in PriorityInputs :
          LET after == scout_toggle_shortlist(shortlist, profiles, s, a, tag, priority)
          IN  KeyRows(shortlist, s, a) # {}
              => /\ Len(after) = Len(shortlist)
                 /\ \A i \in 1..Len(after) :
                       IF i \in KeyRows(shortlist, s, a)
                       THEN after[i].tag = tag /\ after[i].priority = priority
                       ELSE after[i] = shortlist[i]
    /\ \A s \in UserIds, a \in AthleteIds :
          LET after == scout_remove_shortlist(shortlist, s, a)
          IN  /\ KeyRows(after, s, a) = {}
              /\ \A s2 \in UserIds, a2 \in AthleteIds :
                    <<s2, a2>> # <<s, a>>
                    => {after[i] : i \in KeyRows(after, s2, a2)}
                         = {shortlist[i] : i \in KeyRows(shortlist, s2, a2)}

\* two scouts hold an entry for the same athlete; a save has replaced the
\* priority of the first and the other scout's entry is as it was
C30_Witness ==
    /\ Len(shortlist) = 2
    /\ shortlist[1].athlete_id = shortlist[2].athlete_id
    /\ shortlist[1].user_id # shortlist[2].user_id
    /\ shortlist[1].priority = 1
    /\ shortlist[2].priority = 3

====
